---------------------------- MODULE Spec2Model ----------------------------
(***************************************************************************)
(* Business forecasting pipeline (python-forecasting).                     *)
(*                                                                         *)
(* main.py runs: extract_business -> clean_business_data ->                *)
(* create_monthly_business_summary -> correct_known_data_issues ->         *)
(* save_monthly_summary -> generate_business_forecast_from_summary ->      *)
(* save_forecast_data.                                                     *)
(*                                                                         *)
(* Four specifications share the variables below:                          *)
(*   Spec          one run of main() with the arguments main() passes;     *)
(*   SpecSummary   create_monthly_business_summary and                     *)
(*                 correct_known_data_issues applied to bounded inputs;    *)
(*   SpecForecast  prepare_summary_for_forecast and                        *)
(*                 generate_business_forecast_from_summary applied to      *)
(*                 bounded inputs.                                         *)
(*   SpecScenario  generate_business_forecast_from_summary applied to a    *)
(*                 summary with the same joins and drops in every month,   *)
(*                 or with one change of level.                            *)
(*                                                                         *)
(* A pandas Timestamp is modelled at half-day resolution as the integer    *)
(*   ((year*12 + month-1)*31 + day-1)*2 + half                             *)
(* (half = 0 is 00:00, half = 1 is 12:00), which orders valid timestamps   *)
(* as time does.  NaT / None is the empty sequence, a value v is <<v>>.    *)
(* A table is a sequence of rows; a row of the input table stands for n    *)
(* identical records (n >= 1).                                             *)
(***************************************************************************)
EXTENDS Integers, Sequences, FiniteSets, TLC

VARIABLES
    pc,                 \* position of the run
    now,                \* what datetime.now() returns
    raw_data,           \* the input table: [cols, rows]
    start_year,         \* argument of create_monthly_business_summary
    monthly_summary,    \* result of create_monthly_business_summary
    clean_data,         \* result of clean_business_data
    jan_summary,        \* correct_known_data_issues after its January block
    corrected_summary,  \* result of correct_known_data_issues
    reapplied_summary,  \* correct_known_data_issues applied to its own result
    lookback_years,     \* arguments of generate_business_forecast_from_summary
    forecast_periods,
    methods,
    data_df,            \* result of prepare_summary_for_forecast
    forecast_rows,      \* the generated rows, with the per-method columns
    forecast_data,      \* result of generate_business_forecast_from_summary
    ets_fits,           \* what statsmodels answers for each ETS model
    fitted,             \* the models generate_ets_forecast has fitted
    summary_file,       \* business_monthly_summary.xlsx: <<>> or <<table>>
    forecast_file,      \* business_forecast.xlsx: <<>> or <<table>>
    error               \* the exception that ended the run, "" if none

vars == << pc, now, raw_data, clean_data, start_year, monthly_summary,
           jan_summary,
           corrected_summary, reapplied_summary, lookback_years,
           forecast_periods, methods, data_df, forecast_rows, forecast_data,
           ets_fits, fitted, summary_file, forecast_file, error >>

---------------------------------------------------------------------------
(* Calendar: pandas Timestamp, DateOffset, date_range                      *)

Timestamp(y, m, d, h) == ((y * 12 + (m - 1)) * 31 + (d - 1)) * 2 + h

year_of(ts) == ts \div 744

month_of(ts) == ((ts \div 62) % 12) + 1

day_of(ts) == ((ts % 62) \div 2) + 1

half_of(ts) == ts % 2

IsLeap(y) == (y % 4 = 0 /\ y % 100 # 0) \/ y % 400 = 0

DaysInMonth(y, m) ==
    IF m = 2 THEN (IF IsLeap(y) THEN 29 ELSE 28)
    ELSE IF m \in {4, 6, 9, 11} THEN 30 ELSE 31

Min(a, b) == IF a <= b THEN a ELSE b

Max(a, b) == IF a >= b THEN a ELSE b

\* ts + pd.DateOffset(months=k): same day and time k months later, the day
\* clipped to the length of the target month.
AddMonths(ts, k) ==
    LET mi == (ts \div 62) + k
        y  == mi \div 12
        m  == (mi % 12) + 1
    IN  Timestamp(y, m, Min(day_of(ts), DaysInMonth(y, m)), half_of(ts))

\* ts - pd.DateOffset(days=1)
SubDay(ts) ==
    IF day_of(ts) > 1 THEN ts - 2
    ELSE LET mi == (ts \div 62) - 1
             y  == mi \div 12
             m  == (mi % 12) + 1
         IN  Timestamp(y, m, DaysInMonth(y, m), half_of(ts))

\* ts - pd.DateOffset(years=k)
SubYears(ts, k) == AddMonths(ts, 0 - 12 * k)

\* series.dt.to_period('M') ... .dt.to_timestamp(): the first day of the month
ToMonthStartMutDay(ts) == (ts \div 2) * 2

ToMonthStart(ts) == (ts \div 62) * 62

\* pd.date_range(start, end, freq='MS') for a month start `start`
date_range(start, end) ==
    IF end < start THEN << >>
    ELSE [i \in 1..((end \div 62) - (start \div 62) + 1) |-> AddMonths(start, i - 1)]

\* pd.date_range(start, periods=n, freq='MS') for a month start `start`
date_range_periodsMutSkip(start, n) == [i \in 1..n |-> AddMonths(start, i)]

date_range_periods(start, n) == [i \in 1..n |-> AddMonths(start, i - 1)]

isna(x) == x = << >>

val(x) == x[1]

---------------------------------------------------------------------------
(* Table helpers                                                           *)

\* Series.sum(), halving the series
RECURSIVE SumSeq(_)
SumSeq(s) ==
    IF Len(s) = 0 THEN 0
    ELSE IF Len(s) = 1 THEN s[1]
    ELSE LET h == Len(s) \div 2
         IN  SumSeq(SubSeq(s, 1, h)) + SumSeq(SubSeq(s, h + 1, Len(s)))

\* len(df[mask]) over the input table, a row counting for its n records
CountRows(rows, mask) ==
    SumSeq([i \in 1..Len(rows) |-> IF mask[i] THEN rows[i].n ELSE 0])

\* df[mask].index: the positions a boolean mask selects
IndexWhere(mask) == {i \in 1..Len(mask) : mask[i]}

\* index[0]: the first position of a non-empty Index
First(idx) == CHOOSE i \in idx : \A j \in idx : i <= j

Column(df, c) == [i \in 1..Len(df) |-> df[i][c]]

---------------------------------------------------------------------------
(* transform.py                                                            *)

\* clean_business_data: df.dropna(subset=['date_accredited'])
clean_business_data(df) ==
    [df EXCEPT !.rows = SelectSeq(df.rows, LAMBDA r : ~isna(r.date_accredited))]

\* The KeyError clean_business_data raises without the date_accredited column
clean_raises(df) == "date_accredited" \notin df.cols

\* The KeyError create_monthly_business_summary raises without a date column
create_raises(df) ==
    "date_accredited" \notin df.cols \/ "date_dropped" \notin df.cols

\* groupby(month).size(): the set of <<month start, count>> groups of a date
\* column; rows whose date is NaT belong to no group.
GroupSizes(rows, col) ==
    LET months == {ToMonthStart(val(rows[i][col])) :
                      i \in {j \in 1..Len(rows) : ~isna(rows[j][col])}}
    IN  {<<m, CountRows(rows, [i \in 1..Len(rows) |->
                          /\ ~isna(rows[i][col])
                          /\ ToMonthStart(val(rows[i][col])) = m])>> :
            m \in months}

\* the loops of lines 201-216: each group's count is stored in the grid row of
\* its month, if the grid has one; the other rows keep their initial 0.
FillCounts(grid, groups) ==
    [i \in 1..Len(grid) |->
        IF \E g \in groups : g[1] = grid[i]
        THEN (CHOOSE g \in groups : g[1] = grid[i])[2]
        ELSE 0]

\* the active count of one month, lines 220-228
ActiveCountMutLastInstant(rows, month_start) ==
    LET month_end == AddMonths(month_start, 1) - 1
    IN  CountRows(rows, [i \in 1..Len(rows) |->
            /\ ~isna(rows[i].date_accredited)
            /\ val(rows[i].date_accredited) <= month_end
            /\ (isna(rows[i].date_dropped) \/ val(rows[i].date_dropped) > month_start)])

ActiveCountMutDropGeq(rows, month_start) ==
    LET month_end == SubDay(AddMonths(month_start, 1))
    IN  CountRows(rows, [i \in 1..Len(rows) |->
            /\ ~isna(rows[i].date_accredited)
            /\ val(rows[i].date_accredited) <= month_end
            /\ (isna(rows[i].date_dropped) \/ val(rows[i].date_dropped) >= month_start)])

ActiveCountMutDropAfterEnd(rows, month_start) ==
    LET month_end == SubDay(AddMonths(month_start, 1))
    IN  CountRows(rows, [i \in 1..Len(rows) |->
            /\ ~isna(rows[i].date_accredited)
            /\ val(rows[i].date_accredited) <= month_end
            /\ (isna(rows[i].date_dropped) \/ val(rows[i].date_dropped) > month_end)])

ActiveCount(rows, month_start) ==
    LET month_end == SubDay(AddMonths(month_start, 1))
    IN  CountRows(rows, [i \in 1..Len(rows) |->
            /\ ~isna(rows[i].date_accredited)
            /\ val(rows[i].date_accredited) <= month_end
            /\ (isna(rows[i].date_dropped) \/ val(rows[i].date_dropped) > month_start)])

\* the month grid, lines 172-178
MonthGridMutBeforeCurrent(sy, clock) ==
    LET current_month_start == Timestamp(year_of(clock), month_of(clock), 1, 0)
        start_date == Timestamp(sy, 1, 1, 0)
    IN  date_range(start_date, SubDay(current_month_start))

MonthGrid(sy, clock) ==
    LET current_month_start == Timestamp(year_of(clock), month_of(clock), 1, 0)
        start_date == Timestamp(sy, 1, 1, 0)
    IN  date_range(start_date, current_month_start)

\* create_monthly_business_summary(df, start_year), datetime.now() = clock
create_monthly_business_summary(df, sy, clock) ==
    LET grid  == MonthGrid(sy, clock)
        joins == FillCounts(grid, GroupSizes(df.rows, "date_accredited"))
        drops == FillCounts(grid, GroupSizes(df.rows, "date_dropped"))
    IN  [i \in 1..Len(grid) |->
            [year_month        |-> grid[i],
             year              |-> year_of(grid[i]),
             month             |-> month_of(grid[i]),
             active_businesses |-> ActiveCount(df.rows, grid[i]),
             new_joins         |-> joins[i],
             new_drops         |-> drops[i]]]

Jan2025Drops == 134

Feb2025Drops == 136

\* One block of correct_known_data_issues (lines 310-330, 332-352): the rule
\* for the month (yr, mo) with the corrected value c.
ApplyCorrectionMutKeepDrops(df, yr, mo, c) ==
    LET idx == IndexWhere([i \in 1..Len(df) |-> df[i].year = yr /\ df[i].month = mo])
    IN  IF Cardinality(idx) > 0
        THEN LET diff == c - df[First(idx)].new_drops
             IN  [i \in 1..Len(df) |->
                    [df[i] EXCEPT !.active_businesses =
                        IF df[i].year_month > Timestamp(yr, mo, 1, 0)
                        THEN @ - diff ELSE @]]
        ELSE df

ApplyCorrectionMutAddDiff(df, yr, mo, c) ==
    LET idx == IndexWhere([i \in 1..Len(df) |-> df[i].year = yr /\ df[i].month = mo])
    IN  IF Cardinality(idx) > 0
        THEN LET diff == c - df[First(idx)].new_drops
             IN  [i \in 1..Len(df) |->
                    [df[i] EXCEPT
                        !.new_drops = IF i = First(idx) THEN c ELSE @,
                        !.active_businesses =
                            IF df[i].year_month > Timestamp(yr, mo, 1, 0)
                            THEN @ + diff ELSE @]]
        ELSE df

ApplyCorrectionMutFromTarget(df, yr, mo, c) ==
    LET idx == IndexWhere([i \in 1..Len(df) |-> df[i].year = yr /\ df[i].month = mo])
    IN  IF Cardinality(idx) > 0
        THEN LET diff == c - df[First(idx)].new_drops
             IN  [i \in 1..Len(df) |->
                    [df[i] EXCEPT
                        !.new_drops = IF i = First(idx) THEN c ELSE @,
                        !.active_businesses =
                            IF df[i].year_month >= Timestamp(yr, mo, 1, 0)
                            THEN @ - diff ELSE @]]
        ELSE df

ApplyCorrectionMutFirstRow(df, yr, mo, c) ==
    LET idx == IndexWhere([i \in 1..Len(df) |-> df[i].year = yr /\ df[i].month = mo])
        at  == IF Cardinality(idx) > 0 THEN First(idx) ELSE 1
    IN  IF Len(df) > 0
        THEN LET diff == c - df[at].new_drops
             IN  [i \in 1..Len(df) |->
                    [df[i] EXCEPT
                        !.new_drops = IF i = at THEN c ELSE @,
                        !.active_businesses =
                            IF df[i].year_month > Timestamp(yr, mo, 1, 0)
                            THEN @ - diff ELSE @]]
        ELSE df

ApplyCorrectionMutLaterDrops(df, yr, mo, c) ==
    LET idx == IndexWhere([i \in 1..Len(df) |-> df[i].year = yr /\ df[i].month = mo])
    IN  IF Cardinality(idx) > 0
        THEN LET diff == c - df[First(idx)].new_drops
             IN  [i \in 1..Len(df) |->
                    [df[i] EXCEPT
                        !.new_drops = IF i >= First(idx) THEN c ELSE @,
                        !.active_businesses =
                            IF df[i].year_month > Timestamp(yr, mo, 1, 0)
                            THEN @ - diff ELSE @]]
        ELSE df

ApplyCorrection(df, yr, mo, c) ==
    LET idx == IndexWhere([i \in 1..Len(df) |-> df[i].year = yr /\ df[i].month = mo])
    IN  IF Cardinality(idx) > 0
        THEN LET orig_drops == df[First(idx)].new_drops
                 diff       == c - orig_drops
             IN  [i \in 1..Len(df) |->
                    [df[i] EXCEPT
                        !.new_drops = IF i = First(idx) THEN c ELSE @,
                        !.active_businesses =
                            IF df[i].year_month > Timestamp(yr, mo, 1, 0)
                            THEN @ - diff ELSE @]]
        ELSE df

\* the January block alone, lines 308-330
correct_january(df) == ApplyCorrection(df, 2025, 1, Jan2025Drops)

\* correct_known_data_issues(monthly_summary_df)
correct_known_data_issues(df) ==
    ApplyCorrection(correct_january(df), 2025, 2, Feb2025Drops)

---------------------------------------------------------------------------
(* transform.py: prepare_summary_for_forecast                              *)

\* sort_values('year_month') by halving and merging: two tables sorted by
\* year_month merged into one
MergeByMonth(A, B) ==
    IF A = << >> \/ B = << >> \/ A[Len(A)].year_month <= B[1].year_month
    THEN A \o B
    ELSE LET posA == [i \in 1..Len(A) |->
                        i + Cardinality({j \in 1..Len(B) :
                                B[j].year_month < A[i].year_month})]
             posB == [j \in 1..Len(B) |->
                        j + Cardinality({i \in 1..Len(A) :
                                A[i].year_month <= B[j].year_month})]
         IN  [k \in 1..(Len(A) + Len(B)) |->
                IF \E i \in 1..Len(A) : posA[i] = k
                THEN A[CHOOSE i \in 1..Len(A) : posA[i] = k]
                ELSE B[CHOOSE j \in 1..Len(B) : posB[j] = k]]

RECURSIVE SortByMonth(_)
SortByMonth(df) ==
    IF Len(df) <= 1 THEN df
    ELSE LET h == Len(df) \div 2
         IN  MergeByMonth(SortByMonth(SubSeq(df, 1, h)),
                          SortByMonth(SubSeq(df, h + 1, Len(df))))

\* lines 265-282: the rows of the lookback window, the current month excluded
prepare_summary_for_forecastMutCurrent(df, lookback, clock) ==
    LET cutoff_date == SubYears(clock, lookback)
        current_month_start == Timestamp(year_of(clock), month_of(clock), 1, 0)
    IN  SortByMonth(SelectSeq(df, LAMBDA r :
            r.year_month >= cutoff_date /\ r.year_month <= current_month_start))

prepare_summary_for_forecast(df, lookback, clock) ==
    LET today == clock
        cutoff_date == SubYears(today, lookback)
        current_month_start == Timestamp(year_of(today), month_of(today), 1, 0)
        filtered_df == SelectSeq(df, LAMBDA r :
            r.year_month >= cutoff_date /\ r.year_month < current_month_start)
    IN  SortByMonth(filtered_df)

\* line 284: min() of an empty window is NaT, and NaT.strftime raises
prepare_raises(filtered_df) == filtered_df = << >>

---------------------------------------------------------------------------
(* forecast.py                                                             *)

\* round(x) of the number num/den (den > 0): to the nearest integer, a tie
\* to the even one
RoundHalfEven(num, den) ==
    LET q == num \div den
        r == num % den
    IN  IF 2 * r < den THEN q
        ELSE IF 2 * r > den THEN q + 1
        ELSE IF q % 2 = 0 THEN q ELSE q + 1

\* df.tail(k)
TailRows(df, k) == SubSeq(df, Max(1, Len(df) - k + 1), Len(df))

\* lines 57-90: the simple forecast of one column for the calendar month mo
SimpleForecastMutSum(forecast_df, col, mo) ==
    LET same_month_data == SelectSeq(forecast_df, LAMBDA r : r.month = mo)
        all_sum == SumSeq(Column(forecast_df, col))
    IN  IF Len(same_month_data) > 0
        THEN SumSeq(Column(same_month_data, col))
        ELSE RoundHalfEven(all_sum, Len(forecast_df))

SimpleForecastMutNoTrend(forecast_df, col, mo) ==
    LET same_month_data == SelectSeq(forecast_df, LAMBDA r : r.month = mo)
    IN  IF Len(same_month_data) > 0
        THEN RoundHalfEven(SumSeq(Column(same_month_data, col)),
                           Len(same_month_data))
        ELSE RoundHalfEven(SumSeq(Column(forecast_df, col)), Len(forecast_df))

SimpleForecast(forecast_df, col, mo) ==
    LET same_month_data == SelectSeq(forecast_df, LAMBDA r : r.month = mo)
        recent_data     == TailRows(forecast_df, 12)
        same_sum   == SumSeq(Column(same_month_data, col))
        recent_sum == SumSeq(Column(recent_data, col))
        all_sum    == SumSeq(Column(forecast_df, col))
    IN  IF Len(same_month_data) > 0
        THEN IF Len(recent_data) > 0 /\ all_sum > 0
             THEN RoundHalfEven(same_sum * recent_sum * Len(forecast_df),
                                Len(same_month_data) * Len(recent_data) * all_sum)
             ELSE RoundHalfEven(same_sum, Len(same_month_data))
        ELSE RoundHalfEven(all_sum, Len(forecast_df))

\* The models of generate_ets_forecast: the seasonal periods tried, in the
\* order of the loop, and 0 for the non-seasonal model of lines 214-220.
SeasonalPeriods == <<3, 4, 6, 12>>

NonSeasonal == 0

EtsModels == {3, 4, 6, 12, NonSeasonal}

\* What statsmodels answers for one model: the fit fails, or it succeeds with
\* an in-sample MSE.
FitOutcomes == {[ok |-> FALSE, mse |-> 0], [ok |-> TRUE, mse |-> 1],
                [ok |-> TRUE, mse |-> 2]}

\* What the fitted model s forecasts for period t, in halves (3 is 1.5)
RawForecastHalves(s, t) ==
    (CASE s = 3 -> 3 [] s = 4 -> 13 [] s = 6 -> 6 [] s = 12 -> 9
       [] OTHER -> 0 - 3) + 2 * (t - 1)

\* lines 183-211: the loop over the seasonal periods from position i, best
\* being <<>> or <<s, mse>>
RECURSIVE SelectBestMutLast(_, _, _, _)
SelectBestMutLast(n, fit, i, best) ==
    IF i > Len(SeasonalPeriods) THEN best
    ELSE LET s == SeasonalPeriods[i]
         IN  IF n >= s * 2 /\ fit[s].ok /\ (best = << >> \/ fit[s].mse <= best[2])
             THEN SelectBestMutLast(n, fit, i + 1, <<s, fit[s].mse>>)
             ELSE SelectBestMutLast(n, fit, i + 1, best)

RECURSIVE SelectBest(_, _, _, _)
SelectBest(n, fit, i, best) ==
    IF i > Len(SeasonalPeriods) THEN best
    ELSE LET s == SeasonalPeriods[i]
         IN  IF n >= s * 2 /\ fit[s].ok /\ (best = << >> \/ fit[s].mse < best[2])
             THEN SelectBest(n, fit, i + 1, <<s, fit[s].mse>>)
             ELSE SelectBest(n, fit, i + 1, best)

\* the model a column's forecast comes from: the best seasonal one, else the
\* non-seasonal one
EtsModel(n, fit) ==
    LET best == SelectBest(n, fit, 1, << >>)
    IN  IF best = << >> THEN NonSeasonal ELSE best[1]

\* the fits generate_ets_forecast attempts for a series of n points
EtsAttempts(n, fit) ==
    {SeasonalPeriods[i] : i \in {j \in 1..Len(SeasonalPeriods) :
                                    n >= SeasonalPeriods[j] * 2}}
    \cup (IF SelectBest(n, fit, 1, << >>) = << >> THEN {NonSeasonal} ELSE {})

\* lines 214-220, 260-266: the non-seasonal fit is outside any try block
ets_raises(hist, fits) ==
    \/ /\ SelectBest(Len(hist), fits.joins, 1, << >>) = << >>
       /\ ~fits.joins[NonSeasonal].ok
    \/ /\ SelectBest(Len(hist), fits.drops, 1, << >>) = << >>
       /\ ~fits.drops[NonSeasonal].ok

\* lines 222-223, 271-277: forecast, round, clamp at 0
EtsColumnMutNoClamp(n, fit, periods) ==
    [t \in 1..periods |-> RoundHalfEven(RawForecastHalves(EtsModel(n, fit), t), 2)]

EtsColumn(n, fit, periods) ==
    [t \in 1..periods |->
        Max(RoundHalfEven(RawForecastHalves(EtsModel(n, fit), t), 2), 0)]

\* generate_ets_forecast(data_df, forecast_periods)
generate_ets_forecast(hist, periods, fits) ==
    [joins |-> EtsColumn(Len(hist), fits.joins, periods),
     drops |-> EtsColumn(Len(hist), fits.drops, periods)]

\* lines 56-102: the joins and drops columns the requested methods fill in,
\* as a function from column name to the column
MethodColumns(forecast_df, forecast_dates, meths, fits) ==
    LET has(m) == \E i \in 1..Len(meths) : meths[i] = m
        simple == IF has("simple") /\ Len(forecast_dates) > 0
                  THEN ("simple_joins" :> [t \in 1..Len(forecast_dates) |->
                            SimpleForecast(forecast_df, "new_joins",
                                           month_of(forecast_dates[t]))]) @@
                       ("simple_drops" :> [t \in 1..Len(forecast_dates) |->
                            SimpleForecast(forecast_df, "new_drops",
                                           month_of(forecast_dates[t]))])
                  ELSE << >>
        e      == generate_ets_forecast(forecast_df, Len(forecast_dates), fits)
        ets    == IF has("ets") /\ Len(forecast_dates) > 0
                  THEN ("ets_joins" :> e.joins) @@ ("ets_drops" :> e.drops)
                  ELSE << >>
    IN  simple @@ ets

\* lines 118-126: the running active count of the forecast rows
RunningActiveMutNoCarry(net, last_actual_count) ==
    [t \in 1..Len(net) |-> last_actual_count + net[t]]

RECURSIVE RunningActive(_, _)
RunningActive(net, last_actual_count) ==
    IF net = << >> THEN << >>
    ELSE LET current_active == last_actual_count + Head(net)
         IN  <<current_active>> \o RunningActive(Tail(net), current_active)

JoinCol(m) == m \o "_joins"

DropCol(m) == m \o "_drops"

NetCol(m) == m \o "_net_change"

ActiveCol(m) == m \o "_active"

\* lines 104-134: net change and running active count of every requested
\* method whose joins and drops columns exist, added to the columns
RECURSIVE DerivedColumns(_, _, _, _)
DerivedColumns(cols, meths, i, last_actual_count) ==
    IF i > Len(meths) THEN cols
    ELSE LET method == meths[i]
         IN  IF JoinCol(method) \in DOMAIN cols /\ DropCol(method) \in DOMAIN cols
             THEN LET net == [t \in 1..Len(cols[JoinCol(method)]) |->
                                 cols[JoinCol(method)][t] - cols[DropCol(method)][t]]
                      withNet == (NetCol(method) :> net) @@ cols
                      withActive ==
                          (ActiveCol(method) :>
                              RunningActive(net, last_actual_count)) @@ withNet
                  IN  DerivedColumns(withActive, meths, i + 1, last_actual_count)
             ELSE DerivedColumns(cols, meths, i + 1, last_actual_count)

\* lines 136-143: the first method's columns under the unqualified names
DefaultAliases(cols, meths) ==
    LET default_method == meths[1]
    IN  IF ActiveCol(default_method) \in DOMAIN cols
        THEN ("new_joins" :> cols[JoinCol(default_method)]) @@
             ("new_drops" :> cols[DropCol(default_method)]) @@
             ("net_change" :> cols[NetCol(default_method)]) @@
             ("active_businesses" :> cols[ActiveCol(default_method)]) @@ cols
        ELSE cols

\* lines 36-143: the forecast rows; a row's cols holds its populated columns
ForecastRows(forecast_df, periods, meths, fits) ==
    LET last_date == forecast_df[Len(forecast_df)].year_month
        forecast_dates == date_range_periods(AddMonths(last_date, 1), periods)
        last_actual_count == forecast_df[Len(forecast_df)].active_businesses
        cols == DefaultAliases(
                    DerivedColumns(
                        MethodColumns(forecast_df, forecast_dates, meths, fits),
                        meths, 1, last_actual_count),
                    meths)
    IN  [t \in 1..periods |->
            [year_month  |-> forecast_dates[t],
             year        |-> year_of(forecast_dates[t]),
             month       |-> month_of(forecast_dates[t]),
             is_forecast |-> TRUE,
             cols        |-> [c \in DOMAIN cols |-> cols[c][t]]]]

\* lines 145-147: the historical rows of the combined table
HistoricalRowsMutRunning(forecast_df) ==
    [i \in 1..Len(forecast_df) |->
        [year_month  |-> forecast_df[i].year_month,
         year        |-> forecast_df[i].year,
         month       |-> forecast_df[i].month,
         is_forecast |-> FALSE,
         cols        |-> ("active_businesses" :>
                             forecast_df[1].active_businesses
                             + SumSeq([k \in 1..(i - 1) |->
                                   forecast_df[k + 1].new_joins
                                   - forecast_df[k + 1].new_drops])) @@
                         ("new_joins" :> forecast_df[i].new_joins) @@
                         ("new_drops" :> forecast_df[i].new_drops)]]

HistoricalRows(forecast_df) ==
    [i \in 1..Len(forecast_df) |->
        [year_month  |-> forecast_df[i].year_month,
         year        |-> forecast_df[i].year,
         month       |-> forecast_df[i].month,
         is_forecast |-> FALSE,
         cols        |-> ("active_businesses" :> forecast_df[i].active_businesses) @@
                         ("new_joins" :> forecast_df[i].new_joins) @@
                         ("new_drops" :> forecast_df[i].new_drops)]]

\* lines 149-151: pd.concat, sort_values('year_month'), reset_index
CombinedRowsMutForecastFirst(forecast_df, rows) == rows \o HistoricalRows(forecast_df)

CombinedRows(forecast_df, rows) == SortByMonth(HistoricalRows(forecast_df) \o rows)

\* the exceptions of generate_business_forecast_from_summary, forecast_df
\* being the window of line 33: the empty window (transform.py line 284), a
\* failed non-seasonal ETS fit, methods[0] of an empty list (line 137)
forecast_raises(forecast_df, meths, fits) ==
    \/ prepare_raises(forecast_df)
    \/ /\ \E i \in 1..Len(meths) : meths[i] = "ets"
       /\ ets_raises(forecast_df, fits)
    \/ meths = << >>

\* generate_business_forecast_from_summary(monthly_summary_df,
\*     forecast_periods, lookback_years, methods) from line 36 on, forecast_df
\* being the window of line 33
generate_business_forecast_from_summary(forecast_df, periods, meths, fits) ==
    CombinedRows(forecast_df, ForecastRows(forecast_df, periods, meths, fits))

---------------------------------------------------------------------------
(* Bounded inputs                                                          *)

MaxRows == 2

\* the scenario of a correction that lowers January 2025's drops by 20
BulkRows == Jan2025Drops + 20

\* dates of the records: the last day of a month at noon, a first day at
\* midnight, a last day at midnight, a first day at noon
RecDates ==
    { Timestamp(2024, 12, 31, 1), Timestamp(2025, 1, 1, 0),
      Timestamp(2025, 1, 31, 0),  Timestamp(2025, 2, 1, 1) }

OptDates == {<< >>} \cup {<<d>> : d \in RecDates}

\* a row: n records with the same dates; a row without date_accredited is
\* one record
RowTypes ==
    [date_accredited : {<<d>> : d \in RecDates}, date_dropped : OptDates,
     n : {1, BulkRows}]
    \cup [date_accredited : {<< >>}, date_dropped : OptDates, n : {1}]

OptKey(x) == IF isna(x) THEN 0 ELSE val(x)

RowLeq(r, q) ==
    \/ OptKey(r.date_accredited) < OptKey(q.date_accredited)
    \/ /\ r.date_accredited = q.date_accredited
       /\ \/ OptKey(r.date_dropped) < OptKey(q.date_dropped)
          \/ r.date_dropped = q.date_dropped /\ r.n <= q.n

\* the input tables with at most MaxRows rows, one per order of the rows
RowSeqs ==
    UNION {{s \in [1..k -> RowTypes] : \A i \in 1..(k - 1) : RowLeq(s[i], s[i + 1])}
              : k \in 0..MaxRows}

AllCols == {"bid", "date_accredited", "date_dropped"}

\* the input tables: every table with all columns, and the tables of at most
\* one row that lack a date column
RawTables ==
    [cols : {AllCols}, rows : RowSeqs]
    \cup {t \in [cols : {AllCols \ {"date_dropped"}, AllCols \ {"date_accredited"}},
                 rows : RowSeqs] : Len(t.rows) <= 1}

\* clock readings: December 2024, January 2025, the first instant of March
\* 2025, April 2025
NowSet ==
    { Timestamp(2024, 12, 15, 1), Timestamp(2025, 1, 20, 1),
      Timestamp(2025, 3, 1, 0),   Timestamp(2025, 4, 10, 1) }

StartYears == {2024, 2025}

NoTable == << >>

MaxLookback == 2

MaxPeriods == 2

MaxMethods == 2

\* forecast_periods of a call: one month or MaxPeriods months
PeriodChoices == {1, MaxPeriods}

\* the five method names of the specification and a string that is none of
\* them
KnownMethods == {"simple", "ets", "sarima", "seasonal", "ensemble"}

MethodNames == KnownMethods \cup {"prophet"}

\* the methods lists of at most MaxMethods names: no name twice, and at most
\* one name other than simple and ets, which the code all treats alike
MethodLists ==
    UNION {{l \in [1..k -> MethodNames] :
                /\ \A i, j \in 1..k : l[i] = l[j] => i = j
                /\ Cardinality({i \in 1..k : l[i] \notin {"simple", "ets"}}) <= 1}
              : k \in 0..MaxMethods}

Requested(meths, m) == \E i \in 1..Len(meths) : meths[i] = m

\* the answers of statsmodels: one outcome per model for the joins series
\* and one for the drops series
FitOracles ==
    {o \in [EtsModels -> FitOutcomes] :
        o[6] = o[3] /\ o[12] = o[4] /\ o[NonSeasonal].mse # 2}

NoFits == [joins |-> [s \in EtsModels |-> [ok |-> FALSE, mse |-> 0]],
           drops |-> [s \in EtsModels |-> [ok |-> FALSE, mse |-> 0]]]

\* a series for which every seasonal fit fails and the non-seasonal one works
PlainFit ==
    [s \in EtsModels |->
        IF s = NonSeasonal THEN [ok |-> TRUE, mse |-> 1] ELSE [ok |-> FALSE, mse |-> 0]]

\* the answers for the two series: those of one series vary while the other
\* is a PlainFit
FitPairs ==
    [joins : FitOracles, drops : {PlainFit}]
    \cup [joins : {PlainFit},
          drops : {o \in FitOracles : o[3] = o[4] /\ o[3].mse # 2 /\ o[NonSeasonal].ok}
                  \cup {NoFits.drops}]

\* the record tables the forecast is run on: no record; one record still
\* active; one record dropped in February 2025 and 154 accredited in January
ForecastTables ==
    { << >>,
      << [date_accredited |-> <<Timestamp(2024, 12, 31, 1)>>,
          date_dropped |-> << >>, n |-> 1] >>,
      << [date_accredited |-> <<Timestamp(2024, 12, 31, 1)>>,
          date_dropped |-> <<Timestamp(2025, 2, 1, 1)>>, n |-> 1],
         [date_accredited |-> <<Timestamp(2025, 1, 31, 0)>>,
          date_dropped |-> << >>, n |-> BulkRows] >> }

---------------------------------------------------------------------------
(* SpecSummary: clean_business_data, create_monthly_business_summary and   *)
(* correct_known_data_issues on bounded inputs                             *)

summary_vars == << monthly_summary, jan_summary, corrected_summary,
                   reapplied_summary >>

forecast_vars == << lookback_years, forecast_periods, methods, data_df,
                    forecast_rows, forecast_data, ets_fits, fitted >>

file_vars == << summary_file, forecast_file >>

InitSummary ==
    /\ pc = "input"
    /\ now \in NowSet
    /\ start_year \in {y \in StartYears : y <= year_of(now)}
    /\ raw_data \in RawTables
    /\ clean_data = NoTable
    /\ monthly_summary = NoTable
    /\ jan_summary = NoTable
    /\ corrected_summary = NoTable
    /\ reapplied_summary = NoTable
    /\ lookback_years = 0
    /\ forecast_periods = 0
    /\ methods = << >>
    /\ data_df = NoTable
    /\ forecast_rows = NoTable
    /\ forecast_data = NoTable
    /\ ets_fits = NoFits
    /\ fitted = {}
    /\ summary_file = << >>
    /\ forecast_file = << >>
    /\ error = ""

CallClean ==
    /\ pc = "input"
    /\ ~clean_raises(raw_data)
    /\ clean_data' = clean_business_data(raw_data)
    /\ pc' = "cleaned"
    /\ UNCHANGED << now, raw_data, start_year, summary_vars, forecast_vars,
                    file_vars, error >>

CallCleanRaises ==
    /\ pc = "input"
    /\ clean_raises(raw_data)
    /\ pc' = "raised"
    /\ error' = "KeyError"
    /\ UNCHANGED << now, raw_data, clean_data, start_year, summary_vars,
                    forecast_vars, file_vars >>

CallCreate ==
    /\ pc = "cleaned"
    /\ ~create_raises(clean_data)
    /\ monthly_summary' =
           create_monthly_business_summary(clean_data, start_year, now)
    /\ pc' = "summarised"
    /\ UNCHANGED << now, raw_data, clean_data, start_year, jan_summary,
                    corrected_summary, reapplied_summary, forecast_vars,
                    file_vars, error >>

CallCreateRaises ==
    /\ pc = "cleaned"
    /\ create_raises(clean_data)
    /\ pc' = "raised"
    /\ error' = "KeyError"
    /\ UNCHANGED << now, raw_data, clean_data, start_year, summary_vars,
                    forecast_vars, file_vars >>

CallCorrect ==
    /\ pc = "summarised"
    /\ jan_summary' = correct_january(monthly_summary)
    /\ corrected_summary' = correct_known_data_issues(monthly_summary)
    /\ pc' = "corrected"
    /\ UNCHANGED << now, raw_data, clean_data, start_year, monthly_summary,
                    reapplied_summary, forecast_vars, file_vars, error >>

CallCorrectAgain ==
    /\ pc = "corrected"
    /\ reapplied_summary' = correct_known_data_issues(corrected_summary)
    /\ pc' = "reapplied"
    /\ UNCHANGED << now, raw_data, clean_data, start_year, monthly_summary,
                    jan_summary, corrected_summary, forecast_vars, file_vars,
                    error >>

NextSummary ==
    \/ CallClean
    \/ CallCleanRaises
    \/ CallCreate
    \/ CallCreateRaises
    \/ CallCorrect
    \/ CallCorrectAgain

SpecSummary == InitSummary /\ [][NextSummary]_vars

---------------------------------------------------------------------------
(* SpecForecast: generate_business_forecast_from_summary on the corrected  *)
(* summaries of bounded inputs                                             *)

InitForecast ==
    /\ InitSummary
    /\ raw_data \in [cols : {AllCols}, rows : ForecastTables]

\* the fits generate_ets_forecast runs before it returns or raises
EtsFitted(hist, meths, oracle) ==
    IF Requested(meths, "ets")
    THEN {<<"joins", s>> : s \in EtsAttempts(Len(hist), oracle.joins)}
         \cup (IF SelectBest(Len(hist), oracle.joins, 1, << >>) = << >>
                  /\ ~oracle.joins[NonSeasonal].ok
               THEN {}
               ELSE {<<"drops", s>> : s \in EtsAttempts(Len(hist), oracle.drops)})
    ELSE {}

\* line 33: the window of a call with lookback_years = lb
Window(lb) == prepare_summary_for_forecast(corrected_summary, lb, now)

\* a call generate_business_forecast_from_summary(corrected_summary, p, lb,
\* ml) that returns, forecast_df being its window and o what statsmodels
\* answers
ForecastReturns(forecast_df, lb, p, ml, o) ==
    /\ ~forecast_raises(forecast_df, ml, o)
    /\ lookback_years' = lb
    /\ forecast_periods' = p
    /\ methods' = ml
    /\ ets_fits' = o
    /\ data_df' = forecast_df
    /\ forecast_rows' = ForecastRows(forecast_df, p, ml, o)
    /\ forecast_data' =
          generate_business_forecast_from_summary(forecast_df, p, ml, o)
    /\ fitted' = EtsFitted(forecast_df, ml, o)
    /\ error' = error

\* the same call when it raises
ForecastRaises(forecast_df, lb, p, ml, o) ==
    /\ forecast_raises(forecast_df, ml, o)
    /\ lookback_years' = lb
    /\ forecast_periods' = p
    /\ methods' = ml
    /\ ets_fits' = o
    /\ data_df' = NoTable
    /\ fitted' = IF prepare_raises(forecast_df) THEN {}
                 ELSE EtsFitted(forecast_df, ml, o)
    /\ error' = IF prepare_raises(forecast_df) THEN "ValueError"
                ELSE IF Requested(ml, "ets") THEN "FitError"
                ELSE "IndexError"
    /\ UNCHANGED << forecast_rows, forecast_data >>

CallForecast ==
    /\ pc = "corrected"
    /\ \E lb \in 0..MaxLookback :
       LET forecast_df == Window(lb)
       IN  \E p \in PeriodChoices, ml \in MethodLists :
           \E o \in (IF Requested(ml, "ets") THEN FitPairs ELSE {NoFits}) :
              ForecastReturns(forecast_df, lb, p, ml, o)
    /\ pc' = "forecasted"
    /\ UNCHANGED << now, raw_data, clean_data, start_year, summary_vars,
                    file_vars >>

CallForecastRaises ==
    /\ pc = "corrected"
    /\ \E lb \in 0..MaxLookback :
       LET forecast_df == Window(lb)
       IN  \E p \in PeriodChoices, ml \in MethodLists :
           \E o \in (IF Requested(ml, "ets") THEN FitPairs ELSE {NoFits}) :
              ForecastRaises(forecast_df, lb, p, ml, o)
    /\ pc' = "raised"
    /\ UNCHANGED << now, raw_data, clean_data, start_year, summary_vars,
                    file_vars >>

NextForecast ==
    \/ CallClean
    \/ CallCreate
    \/ CallCorrect
    \/ CallForecast
    \/ CallForecastRaises

SpecForecast == InitForecast /\ [][NextForecast]_vars

---------------------------------------------------------------------------
(* SpecScenario: generate_business_forecast_from_summary on a summary whose *)
(* months all have the same joins and the same drops, or have one level     *)
(* before July 2024 and another from then on                                *)

ScenarioLookback == 2

ScenarioPeriods == 3

ScenarioStartYears == {2022, 2023, 2024, 2025}

ScenarioJoins == {0, 10}

ScenarioDrops == {0, 5}

\* the active count of the first month of a synthetic summary: enough for
\* 40 months of 5 drops
ScenarioFirstActive == 40 * 5

ScenarioMethods == {<<"simple">>, <<"simple", "ets">>, <<"ets", "simple">>}

\* a summary from January of sy to the month of clock in which every month
\* has j joins and d drops, the active count moving by j - d a month
ScenarioSummary(sy, clock, j, d) ==
    LET grid == MonthGrid(sy, clock)
    IN  [i \in 1..Len(grid) |->
            [year_month        |-> grid[i],
             year              |-> year_of(grid[i]),
             month             |-> month_of(grid[i]),
             active_businesses |-> ScenarioFirstActive + (i - 1) * (j - d),
             new_joins         |-> j,
             new_drops         |-> d]]

\* the month from which a synthetic summary may change its level
ScenarioStep == Timestamp(2024, 7, 1, 0)

\* the joins and drops of the months from ScenarioStep on, when they differ
\* from those of the earlier months
ScenarioLateLevel == [joins |-> 3, drops |-> 8]

\* a summary from January of sy to the month of clock whose months before
\* ScenarioStep have j joins and d drops and whose later months have j2
\* joins and d2 drops
ScenarioStepSummary(sy, clock, j, d, j2, d2) ==
    LET grid == MonthGrid(sy, clock)
        late(i) == Cardinality({k \in 2..i : grid[k] >= ScenarioStep})
    IN  [i \in 1..Len(grid) |->
            [year_month        |-> grid[i],
             year              |-> year_of(grid[i]),
             month             |-> month_of(grid[i]),
             active_businesses |-> ScenarioFirstActive
                                     + (i - 1 - late(i)) * (j - d)
                                     + late(i) * (j2 - d2),
             new_joins         |-> IF grid[i] >= ScenarioStep THEN j2 ELSE j,
             new_drops         |-> IF grid[i] >= ScenarioStep THEN d2 ELSE d]]

InitScenario ==
    /\ pc = "corrected"
    /\ now \in NowSet
    /\ start_year \in ScenarioStartYears
    /\ raw_data = [cols |-> AllCols, rows |-> << >>]
    /\ clean_data = NoTable
    /\ \E j \in ScenarioJoins, d \in ScenarioDrops :
          \/ monthly_summary = ScenarioSummary(start_year, now, j, d)
          \/ monthly_summary =
                ScenarioStepSummary(start_year, now, j, d,
                                    ScenarioLateLevel.joins,
                                    ScenarioLateLevel.drops)
    /\ jan_summary = NoTable
    /\ corrected_summary = monthly_summary
    /\ reapplied_summary = NoTable
    /\ lookback_years = 0
    /\ forecast_periods = 0
    /\ methods = << >>
    /\ data_df = NoTable
    /\ forecast_rows = NoTable
    /\ forecast_data = NoTable
    /\ ets_fits = NoFits
    /\ fitted = {}
    /\ summary_file = << >>
    /\ forecast_file = << >>
    /\ error = ""

CallScenarioForecast ==
    /\ pc = "corrected"
    /\ \E lb \in 0..ScenarioLookback :
       LET forecast_df == Window(lb)
       IN  \E p \in 1..ScenarioPeriods, ml \in ScenarioMethods :
           \E o \in (IF Requested(ml, "ets") THEN FitPairs ELSE {NoFits}) :
              ForecastReturns(forecast_df, lb, p, ml, o)
    /\ pc' = "forecasted"
    /\ UNCHANGED << now, raw_data, clean_data, start_year, summary_vars,
                    file_vars >>

CallScenarioForecastRaises ==
    /\ pc = "corrected"
    /\ \E lb \in 0..ScenarioLookback :
       LET forecast_df == Window(lb)
       IN  \E p \in 1..ScenarioPeriods, ml \in ScenarioMethods :
           \E o \in (IF Requested(ml, "ets") THEN FitPairs ELSE {NoFits}) :
              ForecastRaises(forecast_df, lb, p, ml, o)
    /\ pc' = "raised"
    /\ UNCHANGED << now, raw_data, clean_data, start_year, summary_vars,
                    file_vars >>

NextScenario ==
    \/ CallScenarioForecast
    \/ CallScenarioForecastRaises

SpecScenario == InitScenario /\ [][NextScenario]_vars

---------------------------------------------------------------------------
(* Spec: one run of main()                                                 *)

MainStartYear == 2000

MainForecastPeriods == 12

MainLookbackYears == 5

MainMethods == <<"simple", "ets">>

\* what a failed save may leave on disk: a file without the table
PartialFile == << NoTable >>

Init ==
    /\ pc = "start"
    /\ now \in NowSet
    /\ start_year = MainStartYear
    /\ raw_data = [cols |-> AllCols, rows |-> << >>]
    /\ clean_data = NoTable
    /\ monthly_summary = NoTable
    /\ jan_summary = NoTable
    /\ corrected_summary = NoTable
    /\ reapplied_summary = NoTable
    /\ lookback_years = 0
    /\ forecast_periods = 0
    /\ methods = << >>
    /\ data_df = NoTable
    /\ forecast_rows = NoTable
    /\ forecast_data = NoTable
    /\ ets_fits = NoFits
    /\ fitted = {}
    /\ summary_file = << >>
    /\ forecast_file = << >>
    /\ error = ""

\* datetime.now() moves on while the run is under way
Tick ==
    /\ pc \notin {"done", "failed"}
    /\ now' \in {t \in NowSet : t > now}
    /\ UNCHANGED << pc, raw_data, clean_data, start_year, summary_vars,
                    forecast_vars, file_vars, error >>

\* main.py line 30: extract_business() returns the three selected columns
Extract ==
    /\ pc = "start"
    /\ raw_data' \in [cols : {AllCols}, rows : ForecastTables]
    /\ pc' = "input"
    /\ UNCHANGED << now, clean_data, start_year, summary_vars, forecast_vars,
                    file_vars, error >>

\* extract_business() raises: no connection, failed query
ExtractRaises ==
    /\ pc = "start"
    /\ pc' = "failed"
    /\ error' = "DatabaseError"
    /\ UNCHANGED << now, raw_data, clean_data, start_year, summary_vars,
                    forecast_vars, file_vars >>

\* main.py line 52: save_monthly_summary(corrected_summary)
SaveSummary ==
    /\ pc = "corrected"
    /\ summary_file' = << corrected_summary >>
    /\ pc' = "summary_saved"
    /\ UNCHANGED << now, raw_data, clean_data, start_year, summary_vars,
                    forecast_vars, forecast_file, error >>

\* save_to_excel raises: the file is untouched or left without the table
SaveSummaryRaises ==
    /\ pc = "corrected"
    /\ summary_file' \in {summary_file, PartialFile}
    /\ pc' = "failed"
    /\ error' = "IOError"
    /\ UNCHANGED << now, raw_data, clean_data, start_year, summary_vars,
                    forecast_vars, forecast_file >>

\* main.py lines 59-67: the forecast of 12 months from 5 years, simple and ets
MainForecast ==
    /\ pc = "summary_saved"
    /\ LET forecast_df == Window(MainLookbackYears)
       IN  \E o \in FitPairs :
              ForecastReturns(forecast_df, MainLookbackYears,
                              MainForecastPeriods, MainMethods, o)
    /\ pc' = "forecasted"
    /\ UNCHANGED << now, raw_data, clean_data, start_year, summary_vars,
                    file_vars >>

MainForecastRaises ==
    /\ pc = "summary_saved"
    /\ LET forecast_df == Window(MainLookbackYears)
       IN  \E o \in FitPairs :
              ForecastRaises(forecast_df, MainLookbackYears,
                             MainForecastPeriods, MainMethods, o)
    /\ pc' = "failed"
    /\ UNCHANGED << now, raw_data, clean_data, start_year, summary_vars,
                    file_vars >>

\* main.py line 74: save_forecast_data(forecast_data)
SaveForecast ==
    /\ pc = "forecasted"
    /\ forecast_file' = << forecast_data >>
    /\ pc' = "done"
    /\ UNCHANGED << now, raw_data, clean_data, start_year, summary_vars,
                    forecast_vars, summary_file, error >>

SaveForecastRaises ==
    /\ pc = "forecasted"
    /\ forecast_file' \in {forecast_file, PartialFile}
    /\ pc' = "failed"
    /\ error' = "IOError"
    /\ UNCHANGED << now, raw_data, clean_data, start_year, summary_vars,
                    forecast_vars, summary_file >>

Next ==
    \/ Tick
    \/ Extract
    \/ ExtractRaises
    \/ CallClean
    \/ CallCreate
    \/ CallCorrect
    \/ SaveSummary
    \/ SaveSummaryRaises
    \/ MainForecast
    \/ MainForecastRaises
    \/ SaveForecast
    \/ SaveForecastRaises

Spec == Init /\ [][Next]_vars

---------------------------------------------------------------------------
(* Properties of the monthly summary and of the corrections                *)

RECURSIVE SumOver(_, _)
SumOver(f, S) ==
    IF S = {} THEN 0
    ELSE LET x == CHOOSE y \in S : TRUE IN f[x] + SumOver(f, S \ {x})

\* the number of records of the rows at the positions S of a table
NumRecords(rows, S) == SumOver([i \in 1..Len(rows) |-> rows[i].n], S)

FirstDayOf(y, m) == Timestamp(y, m, 1, 0)

LastDayOf(y, m) == Timestamp(y, m, DaysInMonth(y, m), 0)

NextMonthStart(ts) ==
    IF month_of(ts) = 12 THEN FirstDayOf(year_of(ts) + 1, 1)
    ELSE FirstDayOf(year_of(ts), month_of(ts) + 1)

Summarised == pc \in {"summarised", "corrected", "reapplied"}

Corrected == pc \in {"corrected", "reapplied"}

HasMonth(S, T) == \E i \in 1..Len(S) : S[i].year_month = T

RowOfMonth(S, T) == S[CHOOSE i \in 1..Len(S) : S[i].year_month = T]

Jan2025 == FirstDayOf(2025, 1)

Feb2025 == FirstDayOf(2025, 2)

RuleEffect(before, after, T, c) ==
    HasMonth(before, T) =>
        LET delta == c - RowOfMonth(before, T).new_drops
        IN  /\ Len(after) = Len(before)
            /\ \A i \in 1..Len(before) :
                  /\ after[i].year_month = before[i].year_month
                  /\ after[i].new_joins = before[i].new_joins
                  /\ after[i].new_drops =
                         IF before[i].year_month = T THEN c
                         ELSE before[i].new_drops
                  /\ after[i].active_businesses =
                         IF before[i].year_month > T
                         THEN before[i].active_businesses - delta
                         ELSE before[i].active_businesses

\* C2: a correction rule sets new_drops of its target month, leaves every
\* other new_drops and every new_joins alone, subtracts the signed delta
\* (corrected minus stored value) from active_businesses of every month
\* strictly after the target and leaves the target and earlier months alone.
CorrectionRuleEffect ==
    Corrected =>
        /\ RuleEffect(monthly_summary, jan_summary, Jan2025, Jan2025Drops)
        /\ RuleEffect(jan_summary, corrected_summary, Feb2025, Feb2025Drops)

\* C2 witness: both target months are in the table, with months before and
\* after them, and both rules change the stored drops.
CorrectionRuleWitness ==
    /\ pc = "corrected"
    /\ HasMonth(monthly_summary, Jan2025)
    /\ HasMonth(monthly_summary, Feb2025)
    /\ monthly_summary[1].year_month < Jan2025
    /\ monthly_summary[Len(monthly_summary)].year_month > Feb2025
    /\ RowOfMonth(monthly_summary, Jan2025).new_drops # Jan2025Drops
    /\ RowOfMonth(jan_summary, Feb2025).new_drops # Feb2025Drops
    /\ RowOfMonth(monthly_summary, Jan2025).active_businesses > 0

\* a rule that lowers the new_drops of its target month T by 20
LowersDropsBy20(before, T, c) ==
    HasMonth(before, T) /\ RowOfMonth(before, T).new_drops - c = 20

\* Scenario B as the specification words it: the active count of the target
\* month and of every later month goes down by 20.
ScenarioBAsWorded(before, after, T, c) ==
    LowersDropsBy20(before, T, c) =>
        \A i \in 1..Len(before) :
            /\ after[i].new_joins = before[i].new_joins
            /\ after[i].active_businesses =
                   IF before[i].year_month >= T
                   THEN before[i].active_businesses - 20
                   ELSE before[i].active_businesses

\* C3 as claimed: violated by the code.
ScenarioBDecreasesFromTarget ==
    Corrected =>
        /\ ScenarioBAsWorded(monthly_summary, jan_summary, Jan2025, Jan2025Drops)
        /\ ScenarioBAsWorded(jan_summary, corrected_summary, Feb2025, Feb2025Drops)

ScenarioBAmended(before, after, T, c) ==
    LowersDropsBy20(before, T, c) =>
        \A i \in 1..Len(before) :
            /\ after[i].new_joins = before[i].new_joins
            /\ after[i].active_businesses =
                   IF before[i].year_month > T
                   THEN before[i].active_businesses + 20
                   ELSE before[i].active_businesses

\* C3 amended: when a correction rule lowers the new_drops of month M by 20,
\* active_businesses of every month strictly after M rises by 20, and
\* active_businesses of M and of every earlier month and new_joins of every
\* month are unchanged.
ScenarioBIncreasesAfterTarget ==
    Corrected =>
        /\ ScenarioBAmended(monthly_summary, jan_summary, Jan2025, Jan2025Drops)
        /\ ScenarioBAmended(jan_summary, corrected_summary, Feb2025, Feb2025Drops)

\* C3 witness: January 2025 holds 154 drops, the rule lowers them to 134, and
\* the table has months before and after January 2025.
ScenarioBWitness ==
    /\ pc = "corrected"
    /\ LowersDropsBy20(monthly_summary, Jan2025, Jan2025Drops)
    /\ monthly_summary[1].year_month < Jan2025
    /\ monthly_summary[Len(monthly_summary)].year_month > Jan2025
    /\ RowOfMonth(jan_summary, Jan2025).new_drops = Jan2025Drops

\* C4: correct_known_data_issues applied to its own result returns that
\* result unchanged.
CorrectionIdempotent ==
    pc = "reapplied" => reapplied_summary = corrected_summary

\* C4 witness: a second application to a table in which both rules had
\* changed the drops and shifted later months.
CorrectionIdempotentWitness ==
    /\ pc = "reapplied"
    /\ HasMonth(monthly_summary, Jan2025)
    /\ HasMonth(monthly_summary, Feb2025)
    /\ monthly_summary[Len(monthly_summary)].year_month > Feb2025
    /\ RowOfMonth(monthly_summary, Jan2025).new_drops # Jan2025Drops
    /\ RowOfMonth(monthly_summary, Feb2025).new_drops # Feb2025Drops
    /\ corrected_summary[Len(corrected_summary)].active_businesses #
           monthly_summary[Len(monthly_summary)].active_businesses

\* the records the summary is built from have dates of day granularity,
\* every date_dropped is later than the record's date_accredited, and no
\* date_dropped is on the first day of a month
FlowPrecondition ==
    \A k \in 1..Len(clean_data.rows) :
        LET r == clean_data.rows[k]
        IN  /\ half_of(val(r.date_accredited)) = 0
            /\ ~isna(r.date_dropped) =>
                  /\ half_of(val(r.date_dropped)) = 0
                  /\ val(r.date_dropped) > val(r.date_accredited)
                  /\ day_of(val(r.date_dropped)) # 1

\* the months at positions i and i + 1 of S satisfy the flow equation
FlowEquation(S, i) ==
    S[i + 1].active_businesses =
        S[i].active_businesses + S[i + 1].new_joins - S[i].new_drops

FlowConserved(S) == \A i \in 1..(Len(S) - 1) : FlowEquation(S, i)

\* C23: flow conservation.  When the records satisfy FlowPrecondition, every
\* pair of consecutive months M, M+1 of the built summary has
\* active_businesses(M+1) = active_businesses(M) + new_joins(M+1) -
\* new_drops(M); and correct_known_data_issues preserves the equation: a
\* pair that satisfies it before the January block satisfies it after the
\* January block and after the whole function, also when the function is
\* applied to its own result.
FlowConservation ==
    /\ (Summarised /\ FlowPrecondition) => FlowConserved(monthly_summary)
    /\ Corrected =>
          /\ \A i \in 1..(Len(monthly_summary) - 1) :
                FlowEquation(monthly_summary, i) =>
                    /\ FlowEquation(jan_summary, i)
                    /\ FlowEquation(corrected_summary, i)
          /\ FlowPrecondition => FlowConserved(corrected_summary)
    /\ pc = "reapplied" =>
          \A i \in 1..(Len(corrected_summary) - 1) :
              FlowEquation(corrected_summary, i) =>
                  FlowEquation(reapplied_summary, i)

\* C23 witness: a record accredited on 1 January 2025 and dropped on 31
\* January 2025, a summary that reaches March 2025, both corrections applied
\* and the equation true of every pair of months of the corrected summary.
FlowConservationWitness ==
    /\ pc = "corrected"
    /\ FlowPrecondition
    /\ \E k \in 1..Len(clean_data.rows) :
          /\ clean_data.rows[k].date_accredited = <<Timestamp(2025, 1, 1, 0)>>
          /\ clean_data.rows[k].date_dropped = <<Timestamp(2025, 1, 31, 0)>>
    /\ HasMonth(monthly_summary, FirstDayOf(2025, 3))
    /\ RowOfMonth(monthly_summary, Jan2025).new_drops # Jan2025Drops
    /\ RowOfMonth(corrected_summary, Jan2025).new_drops = Jan2025Drops
    /\ RowOfMonth(corrected_summary, Feb2025).new_drops = Feb2025Drops
    /\ FlowConserved(corrected_summary)

\* the two correction rules applied to df in the other order: February
\* 2025 first, January 2025 second
FebruaryThenJanuary(df) ==
    ApplyCorrection(ApplyCorrection(df, 2025, 2, Feb2025Drops),
                    2025, 1, Jan2025Drops)

\* C24: correct_known_data_issues applies the January 2025 rule before the
\* February 2025 rule: the table after its first block has January's drops
\* corrected and February's drops as built, and its result is the February
\* rule applied to that table.  The result does not depend on the order:
\* the February rule followed by the January rule gives the same new_drops
\* and the same active_businesses in every month.
CorrectionOrderIrrelevant ==
    Corrected =>
        /\ Len(jan_summary) = Len(monthly_summary)
        /\ HasMonth(monthly_summary, Jan2025) =>
              RowOfMonth(jan_summary, Jan2025).new_drops = Jan2025Drops
        /\ HasMonth(monthly_summary, Feb2025) =>
              RowOfMonth(jan_summary, Feb2025).new_drops =
                  RowOfMonth(monthly_summary, Feb2025).new_drops
        /\ corrected_summary =
              ApplyCorrection(jan_summary, 2025, 2, Feb2025Drops)
        /\ LET swapped == FebruaryThenJanuary(monthly_summary)
           IN  /\ Len(swapped) = Len(corrected_summary)
               /\ \A i \in 1..Len(corrected_summary) :
                     /\ swapped[i].year_month = corrected_summary[i].year_month
                     /\ swapped[i].new_drops = corrected_summary[i].new_drops
                     /\ swapped[i].active_businesses =
                           corrected_summary[i].active_businesses

\* C24 witness: a summary that reaches March 2025 in which both rules change
\* the drops of their month and the active count of a later month.
CorrectionOrderWitness ==
    /\ pc = "corrected"
    /\ HasMonth(monthly_summary, FirstDayOf(2025, 3))
    /\ RowOfMonth(monthly_summary, Jan2025).new_drops \notin {0, Jan2025Drops}
    /\ RowOfMonth(monthly_summary, Feb2025).new_drops \notin {0, Feb2025Drops}
    /\ RowOfMonth(jan_summary, FirstDayOf(2025, 3)).active_businesses #
          RowOfMonth(monthly_summary, FirstDayOf(2025, 3)).active_businesses
    /\ RowOfMonth(corrected_summary, FirstDayOf(2025, 3)).active_businesses #
          RowOfMonth(jan_summary, FirstDayOf(2025, 3)).active_businesses
    /\ RowOfMonth(corrected_summary, Feb2025).active_businesses #
          RowOfMonth(monthly_summary, Feb2025).active_businesses

---------------------------------------------------------------------------
(* Properties of the forecast                                              *)

HasColumn(rows, c) == \A t \in 1..Len(rows) : c \in DOMAIN rows[t].cols

CurrentMonthStart == FirstDayOf(year_of(now), month_of(now))

\* now - lookback_years: the same day and time lookback_years earlier, 29
\* February becoming 28 February in a year that has none
LookbackCutoff ==
    LET y == year_of(now) - lookback_years
    IN  Timestamp(y, month_of(now),
                  Min(day_of(now), DaysInMonth(y, month_of(now))), half_of(now))

\* C5: for every method with forecast columns and every forecast row t,
\* net_change[t] = joins[t] - drops[t] and active[t] = active[t-1] +
\* net_change[t], active[0] being the active_businesses of the last
\* historical month of the prepared window.
NetChangeAndRunningActive ==
    pc = "forecasted" =>
        /\ Len(forecast_rows) = forecast_periods
        /\ \A m \in MethodNames :
              HasColumn(forecast_rows, JoinCol(m)) =>
                 \A t \in 1..forecast_periods :
                    LET row == forecast_rows[t].cols
                        previous == IF t = 1
                                    THEN data_df[Len(data_df)].active_businesses
                                    ELSE forecast_rows[t - 1].cols[ActiveCol(m)]
                    IN  /\ row[NetCol(m)] = row[JoinCol(m)] - row[DropCol(m)]
                        /\ row[ActiveCol(m)] = previous + row[NetCol(m)]

\* C5 witness: two forecast rows of two methods, a non-zero seed and a
\* non-zero net change in each row.
NetChangeWitness ==
    /\ pc = "forecasted"
    /\ forecast_periods = 2
    /\ HasColumn(forecast_rows, "simple_joins")
    /\ HasColumn(forecast_rows, "ets_joins")
    /\ data_df[Len(data_df)].active_businesses # 0
    /\ forecast_rows[1].cols["ets_net_change"] # 0
    /\ forecast_rows[2].cols["ets_net_change"] # 0
    /\ forecast_rows[1].cols["simple_net_change"] # 0

\* C7 as claimed: violated by the code.  Every requested method of a
\* non-empty list of the five method names gets its four columns in each of
\* the forecast_periods forecast rows.
EveryRequestedMethodPopulated ==
    (pc = "forecasted" /\ \A i \in 1..Len(methods) : methods[i] \in KnownMethods) =>
        /\ Len(forecast_rows) = forecast_periods
        /\ \A i \in 1..Len(methods) :
              /\ HasColumn(forecast_rows, JoinCol(methods[i]))
              /\ HasColumn(forecast_rows, DropCol(methods[i]))
              /\ HasColumn(forecast_rows, NetCol(methods[i]))
              /\ HasColumn(forecast_rows, ActiveCol(methods[i]))

\* C8 as claimed: violated by the code.  A call whose methods list holds a
\* string that is none of the five names ends with a configuration error,
\* with no model fitted and no table returned.
UnknownMethodRejected ==
    (pc \in {"forecasted", "raised"}
     /\ \E i \in 1..Len(methods) : methods[i] \notin KnownMethods) =>
        /\ pc = "raised"
        /\ error = "ConfigurationError"
        /\ fitted = {}
        /\ forecast_data = NoTable

\* C10: prepare_summary_for_forecast returns exactly the rows of the summary
\* whose month m satisfies now - lookback_years <= m < first day of the
\* current month, ascending by month; the current month is neither in its
\* result nor among the historical rows of the forecast.
PreparedWindowExcludesCurrentMonth ==
    pc = "forecasted" =>
        /\ {data_df[i] : i \in 1..Len(data_df)} =
              {corrected_summary[i] : i \in
                  {j \in 1..Len(corrected_summary) :
                      /\ LookbackCutoff <= corrected_summary[j].year_month
                      /\ corrected_summary[j].year_month < CurrentMonthStart}}
        /\ \A i \in 1..(Len(data_df) - 1) :
              data_df[i].year_month < data_df[i + 1].year_month
        /\ \A i \in 1..Len(data_df) : data_df[i].year_month # CurrentMonthStart
        /\ \A i \in 1..Len(forecast_data) :
              ~forecast_data[i].is_forecast =>
                  /\ forecast_data[i].year_month # CurrentMonthStart
                  /\ \E j \in 1..Len(data_df) :
                        data_df[j].year_month = forecast_data[i].year_month

\* C10 witness: the summary holds the current month and months older than
\* the cutoff, and the cutoff itself is a month start that stays in.
PreparedWindowWitness ==
    /\ pc = "forecasted"
    /\ lookback_years = 1
    /\ HasMonth(corrected_summary, CurrentMonthStart)
    /\ corrected_summary[1].year_month < LookbackCutoff
    /\ data_df[1].year_month = LookbackCutoff
    /\ data_df[Len(data_df)].year_month < CurrentMonthStart
    /\ Len(data_df) = 12

\* the positions of the rows of clean_data whose date in column col is not
\* null and falls in the calendar month of the grid row M
InMonth(col, M) ==
    {k \in 1..Len(clean_data.rows) :
        LET x == clean_data.rows[k][col]
        IN  /\ ~isna(x)
            /\ FirstDayOf(M.year, M.month) <= val(x)
            /\ val(x) < NextMonthStart(M.year_month)}

\* C16: new_joins of every grid month is the number of records whose
\* date_accredited falls in that calendar month and new_drops the number of
\* records whose non-null date_dropped falls in it: 0 for a month without
\* such a record, and a record dated outside the grid adds to no month.
JoinsAndDropsAreMonthCounts ==
    Summarised =>
        \A i \in 1..Len(monthly_summary) :
            LET M == monthly_summary[i]
            IN  /\ M.new_joins = NumRecords(clean_data.rows, InMonth("date_accredited", M))
                /\ M.new_drops = NumRecords(clean_data.rows, InMonth("date_dropped", M))

\* C16 witness: a grid from January 2025 on; one record accredited at noon
\* of 31 December 2024, outside the grid, and dropped at noon of 1 February
\* 2025, and records accredited on 31 January 2025; March 2025 has neither.
JoinsAndDropsWitness ==
    /\ pc = "summarised"
    /\ start_year = 2025
    /\ HasMonth(monthly_summary, FirstDayOf(2025, 3))
    /\ \E r, q \in {clean_data.rows[i] : i \in 1..Len(clean_data.rows)} :
          /\ r.date_accredited = <<Timestamp(2024, 12, 31, 1)>>
          /\ r.date_dropped = <<Timestamp(2025, 2, 1, 1)>>
          /\ q.date_accredited = <<LastDayOf(2025, 1)>>
          /\ isna(q.date_dropped)
          /\ RowOfMonth(monthly_summary, Jan2025).new_joins = q.n
          /\ RowOfMonth(monthly_summary, Feb2025).new_drops = r.n
    /\ RowOfMonth(monthly_summary, FirstDayOf(2025, 3)).new_joins = 0
    /\ RowOfMonth(monthly_summary, FirstDayOf(2025, 3)).new_drops = 0
    /\ SumSeq(Column(monthly_summary, "new_joins")) < SumSeq(Column(clean_data.rows, "n"))

\* C19 as claimed: violated by the code.  create_monthly_business_summary
\* returns a summary only for a record table that has both date columns and
\* is not empty.
CreateRejectsBadInput ==
    Summarised =>
        /\ {"date_accredited", "date_dropped"} \subseteq clean_data.cols
        /\ clean_data.rows # << >>

\* C20: a correction rule whose target month is not in the summary is
\* skipped without an error and changes nothing; the other rule is applied
\* if its target is there, and with both targets absent the returned table
\* is the input.
AbsentTargetSkipped ==
    Corrected =>
        /\ error = ""
        /\ ~HasMonth(monthly_summary, Jan2025) => jan_summary = monthly_summary
        /\ ~HasMonth(monthly_summary, Feb2025) => corrected_summary = jan_summary
        /\ HasMonth(monthly_summary, Jan2025) =>
              RowOfMonth(corrected_summary, Jan2025).new_drops = Jan2025Drops
        /\ HasMonth(monthly_summary, Feb2025) =>
              RowOfMonth(corrected_summary, Feb2025).new_drops = Feb2025Drops
        /\ (~HasMonth(monthly_summary, Jan2025) /\ ~HasMonth(monthly_summary, Feb2025))
              => corrected_summary = monthly_summary

\* C20 witness: a summary that ends in January 2025: the February rule finds
\* no target, the January rule changes the drops of January.
AbsentTargetWitness ==
    /\ pc = "corrected"
    /\ Len(monthly_summary) > 1
    /\ HasMonth(monthly_summary, Jan2025)
    /\ ~HasMonth(monthly_summary, Feb2025)
    /\ RowOfMonth(monthly_summary, Jan2025).new_drops # Jan2025Drops
    /\ corrected_summary # monthly_summary

\* C11: the forecast rows are forecast_periods rows whose months are
\* consecutive month starts, the first one the month right after the last
\* historical month of the prepared window; no forecast month is a
\* historical month.
ForecastMonthsFollowHistory ==
    pc = "forecasted" =>
        /\ Len(forecast_rows) = forecast_periods
        /\ forecast_rows[1].year_month =
              NextMonthStart(data_df[Len(data_df)].year_month)
        /\ \A t \in 1..(forecast_periods - 1) :
              forecast_rows[t + 1].year_month =
                  NextMonthStart(forecast_rows[t].year_month)
        /\ \A t \in 1..forecast_periods :
              /\ forecast_rows[t].year_month =
                    FirstDayOf(forecast_rows[t].year, forecast_rows[t].month)
              /\ \A i \in 1..Len(data_df) :
                    data_df[i].year_month # forecast_rows[t].year_month

\* C11 witness: a forecast of two months that crosses the end of a year,
\* November 2024 being the last historical month.
ForecastMonthsWitness ==
    /\ pc = "forecasted"
    /\ forecast_periods = 2
    /\ data_df[Len(data_df)].year_month = FirstDayOf(2024, 11)
    /\ forecast_rows[1].year_month = FirstDayOf(2024, 12)
    /\ forecast_rows[2].year_month = FirstDayOf(2025, 1)

\* the window's new_joins and new_drops are non-negative integers
WindowNonNegative ==
    \A i \in 1..Len(data_df) :
        data_df[i].new_joins \in Nat /\ data_df[i].new_drops \in Nat

\* C12: over a window of non-negative joins and drops, the joins and drops
\* forecast of every method that forecasts is a non-negative integer in each
\* of the forecast_periods rows; simple and ets forecast whenever requested.
ForecastsNonNegative ==
    (pc = "forecasted" /\ WindowNonNegative) =>
        /\ \A m \in {"simple", "ets"} :
              Requested(methods, m) => HasColumn(forecast_rows, JoinCol(m))
        /\ \A m \in MethodNames :
              HasColumn(forecast_rows, JoinCol(m)) =>
                 \A t \in 1..forecast_periods :
                    /\ forecast_rows[t].cols[JoinCol(m)] \in Nat
                    /\ forecast_rows[t].cols[DropCol(m)] \in Nat

\* C12 witness: the ETS joins forecast comes from the non-seasonal model,
\* whose first value is negative before the clamp, next to a simple
\* forecast that is positive.
ForecastsNonNegativeWitness ==
    /\ pc = "forecasted"
    /\ WindowNonNegative
    /\ Requested(methods, "ets") /\ Requested(methods, "simple")
    /\ EtsModel(Len(data_df), ets_fits.joins) = NonSeasonal
    /\ RawForecastHalves(NonSeasonal, 1) < 0
    /\ forecast_rows[1].cols["ets_joins"] = 0
    /\ forecast_rows[1].cols["simple_joins"] > 0

\* C13 as claimed: violated by the code.  For a non-empty methods list,
\* every forecast row carries new_joins, new_drops, net_change and
\* active_businesses, equal to the joins, drops, net change and active count
\* of the first method of the list.
UnqualifiedColumnsAreFirstMethod ==
    (pc = "forecasted" /\ methods # << >>) =>
        \A t \in 1..Len(forecast_rows) :
            LET row == forecast_rows[t].cols
                m == methods[1]
            IN  /\ {"new_joins", "new_drops", "net_change", "active_businesses",
                    JoinCol(m), DropCol(m), NetCol(m), ActiveCol(m)}
                       \subseteq DOMAIN row
                /\ row["new_joins"] = row[JoinCol(m)]
                /\ row["new_drops"] = row[DropCol(m)]
                /\ row["net_change"] = row[NetCol(m)]
                /\ row["active_businesses"] = row[ActiveCol(m)]

WindowConstant(j, d) ==
    \A i \in 1..Len(data_df) :
        data_df[i].new_joins = j /\ data_df[i].new_drops = d

\* C15: scenario A.  Over a history in which every month has 10 joins and 5
\* drops, the simple method forecasts 10 joins, 5 drops and a net change of
\* +5 in every forecast row, and its active count rises by 5 a month from
\* the last historical active count.
ScenarioAForecast ==
    (pc = "forecasted" /\ WindowConstant(10, 5) /\ Requested(methods, "simple")) =>
        \A t \in 1..forecast_periods :
            LET row == forecast_rows[t].cols
            IN  /\ row["simple_joins"] = 10
                /\ row["simple_drops"] = 5
                /\ row["simple_net_change"] = 5
                /\ row["simple_active"] =
                      data_df[Len(data_df)].active_businesses + 5 * t

\* C15 witness: the call of the scenario, lookback_years = 2, forecast_periods
\* = 3 and methods = [simple], over two full years of history.
ScenarioAWitness ==
    /\ pc = "forecasted"
    /\ WindowConstant(10, 5)
    /\ lookback_years = 2
    /\ forecast_periods = 3
    /\ methods = <<"simple">>
    /\ Len(data_df) = 24
    /\ forecast_rows[3].cols["active_businesses"] =
          data_df[24].active_businesses + 15

SummaryNonNegative(S) ==
    \A i \in 1..Len(S) :
        /\ S[i].active_businesses \in Nat
        /\ S[i].new_joins \in Nat
        /\ S[i].new_drops \in Nat

\* C18 as claimed: violated by the code.  active_businesses, new_joins and
\* new_drops are non-negative integers in the built summary, in the summary
\* after correct_known_data_issues and in every historical and forecast row
\* of the combined table.
AllCountsNonNegative ==
    /\ SummaryNonNegative(monthly_summary)
    /\ SummaryNonNegative(corrected_summary)
    /\ \A i \in 1..Len(forecast_data) :
          \A c \in {"active_businesses", "new_joins", "new_drops"} :
              c \in DOMAIN forecast_data[i].cols =>
                  forecast_data[i].cols[c] \in Nat

\* the seasonal periods with at least 2s points in a history of n points
EligiblePeriods(n) == {s \in {3, 4, 6, 12} : n >= 2 * s}

\* the eligible periods whose fit succeeds
FittedPeriods(n, fit) == {s \in EligiblePeriods(n) : fit[s].ok}

\* the model the selection rule names: NonSeasonal when nothing was fitted,
\* else the fitted period of least MSE, the least such period among equals
RuleModel(n, fit) ==
    IF FittedPeriods(n, fit) = {} THEN NonSeasonal
    ELSE CHOOSE s \in FittedPeriods(n, fit) :
            \A u \in FittedPeriods(n, fit) :
                \/ fit[s].mse < fit[u].mse
                \/ fit[s].mse = fit[u].mse /\ s <= u

\* the rounded, clamped forecasts of model s
ColumnOfModel(s, periods) ==
    [t \in 1..periods |-> Max(RoundHalfEven(RawForecastHalves(s, t), 2), 0)]

\* the selector did for one series what the rule says: it tried exactly the
\* eligible periods, tried the non-seasonal model exactly when none of them
\* was fitted, and forecast with the model the rule names
SelectorFollowsRule(series, n, fit, column) ==
    /\ {s \in {3, 4, 6, 12} : <<series, s>> \in fitted} = EligiblePeriods(n)
    /\ <<series, NonSeasonal>> \in fitted <=> FittedPeriods(n, fit) = {}
    /\ column = ColumnOfModel(RuleModel(n, fit), forecast_periods)

\* C21: for a call that requests ets, the selector follows the rule for the
\* joins and for the drops independently: it considers exactly the periods s
\* of {3,4,6,12} with at least 2s historical points, a failed candidate is
\* skipped and the call still returns, the candidate of least in-sample MSE
\* is used (the smallest s among equals), and the non-seasonal model is used
\* if and only if no candidate was fitted.  The call raises a fit error only
\* when, for one series, no candidate was fitted and the non-seasonal fit
\* fails as well.
EtsSelectorFollowsRule ==
    /\ (pc = "forecasted" /\ Requested(methods, "ets")) =>
          /\ SelectorFollowsRule("joins", Len(data_df), ets_fits.joins,
                                 [t \in 1..forecast_periods |->
                                     forecast_rows[t].cols["ets_joins"]])
          /\ SelectorFollowsRule("drops", Len(data_df), ets_fits.drops,
                                 [t \in 1..forecast_periods |->
                                     forecast_rows[t].cols["ets_drops"]])
    /\ (pc = "raised" /\ error = "FitError") =>
          LET n == Len(Window(lookback_years))
          IN  \/ /\ FittedPeriods(n, ets_fits.joins) = {}
                 /\ ~ets_fits.joins[NonSeasonal].ok
              \/ /\ FittedPeriods(n, ets_fits.drops) = {}
                 /\ ~ets_fits.drops[NonSeasonal].ok

\* C21 witness: a history of 24 months, so that all four periods are
\* eligible; the fits of 3 and 6 fail for the joins, those of 4 and 12
\* succeed with the same MSE, and the joins are forecast with period 4; the
\* drops are forecast with the non-seasonal model.
EtsSelectorWitness ==
    /\ pc = "forecasted"
    /\ Requested(methods, "ets")
    /\ Len(data_df) = 24
    /\ ~ets_fits.joins[3].ok
    /\ ets_fits.joins[4].ok
    /\ ets_fits.joins[12].ok
    /\ ets_fits.joins[12].mse = ets_fits.joins[4].mse
    /\ forecast_rows[1].cols["ets_joins"] = ColumnOfModel(4, 1)[1]
    /\ forecast_rows[1].cols["ets_drops"] = ColumnOfModel(NonSeasonal, 1)[1]
    /\ <<"joins", 3>> \in fitted
    /\ <<"joins", NonSeasonal>> \notin fitted

\* v is round(num / den) for den > 0: the nearest integer, and the even one
\* of the two when num / den is halfway between them
IsRound(v, num, den) ==
    LET dist == IF num >= v * den THEN num - v * den ELSE v * den - num
    IN  /\ 2 * dist <= den
        /\ 2 * dist = den => v % 2 = 0

\* the sum of column col over the rows of df with an index in S
ColumnSum(df, col, S) == SumOver([i \in 1..Len(df) |-> df[i][col]], S)

\* v is what the simple method's formula gives for column col and the
\* calendar month mo over the window df: round(A * F) with A the mean over
\* the rows of month mo and F = (mean of the last 12 rows) / (mean of all
\* rows), F = 1 when the latter is 0; the rounded mean of all rows when no
\* row has month mo
SimpleFormula(v, df, col, mo) ==
    LET all    == 1..Len(df)
        same   == {i \in all : df[i].month = mo}
        recent == {i \in all : i > Len(df) - 12}
        A_num  == ColumnSum(df, col, same)
        R_num  == ColumnSum(df, col, recent)
        H_num  == ColumnSum(df, col, all)
    IN  IF same = {} THEN IsRound(v, H_num, Len(df))
        ELSE IF H_num = 0 THEN IsRound(v, A_num, Cardinality(same))
        ELSE IsRound(v, A_num * R_num * Len(df),
                        Cardinality(same) * Cardinality(recent) * H_num)

\* C22: in every forecast row of a call that requests simple, simple_joins
\* and simple_drops are, each for its own column, round(A * F): A the mean
\* of the column over the historical months of the window with the row's
\* calendar month, F the mean over the last 12 historical months divided by
\* the mean over all of them, F = 1 when that mean is 0; when no historical
\* month has the row's calendar month the value is the rounded mean over
\* all historical months.
SimpleMethodFormula ==
    (pc = "forecasted" /\ Requested(methods, "simple")) =>
        \A t \in 1..forecast_periods :
            /\ SimpleFormula(forecast_rows[t].cols["simple_joins"], data_df,
                             "new_joins", forecast_rows[t].month)
            /\ SimpleFormula(forecast_rows[t].cols["simple_drops"], data_df,
                             "new_drops", forecast_rows[t].month)

\* C22 witness: 24 historical months, March 2023 to February 2025, with 10
\* joins and 5 drops a month until June 2024 and 3 joins and 8 drops from
\* July 2024.  For March 2025 A = 10 and F = (64/12)/(184/24) for the joins,
\* A = 5 and F = (84/12)/(144/24) for the drops: simple_joins is
\* round(6.96) = 7 and simple_drops is round(5.83) = 6.
SimpleMethodWitness ==
    /\ pc = "forecasted"
    /\ Requested(methods, "simple")
    /\ Len(data_df) = 24
    /\ data_df[1].new_joins = 10 /\ data_df[1].new_drops = 5
    /\ data_df[24].new_joins = 3 /\ data_df[24].new_drops = 8
    /\ forecast_rows[1].month = 3
    /\ forecast_rows[1].cols["simple_joins"] = 7
    /\ forecast_rows[1].cols["simple_drops"] = 6

---------------------------------------------------------------------------
(* Properties of a run of main()                                           *)

\* C6 as claimed: violated by the code.  A run that ended with a fatal
\* error has persisted neither the monthly summary file nor the forecast
\* file.
NoArtifactAfterFatalError ==
    pc = "failed" => summary_file = << >> /\ forecast_file = << >>

===========================================================================
